---- MODULE Spec2Model ----
(***************************************************************************)
(* Placer: placement of rectangular parts on chipboards.                   *)
(*                                                                         *)
(* Two implementations of optimizePlacement live in the repository:        *)
(*   - the alignment-scored guillotine packer of src/utils/placement.ts    *)
(*     (actions ...A, specification SpecA), and                            *)
(*   - the horizontal guillotine packer (createChipboardHorizontal,        *)
(*     actions ...H, specification SpecH).                                 *)
(* Lengths are integers (millimetres); y grows downwards in the horizontal *)
(* packer's comments and upwards in the aligned packer's, which makes no   *)
(* difference to the arithmetic.                                           *)
(***************************************************************************)
EXTENDS Integers, Sequences, FiniteSets, TLC

VARIABLES
  algorithm,       \* "aligned" | "horizontal": which optimizePlacement runs
  chipboard,       \* Chipboard: [width, height, margin]
  parts,           \* ProjectPart[] handed to optimizePlacement
  sawThickness,    \* kerf
  phase,           \* position in optimizePlacement: idle, loop, sheet, done
  partInstances,   \* expanded and sorted PartInstance[]
  remainingParts,  \* optimizePlacement's remainingParts
  chipboards,      \* ChipboardWithParts[] built so far
  chipboardCount,  \* horizontal packer's sheet counter
  placedParts,     \* placedParts of the sheet being packed
  freeRectangles,  \* freeRectangles (aligned) / freeBoards (horizontal)
  horizontalCuts,  \* aligned packer: y coordinates of existing cuts
  verticalCuts,    \* aligned packer: x coordinates of existing cuts
  sheetInput,      \* aligned: `parts` argument of packChipboard
  partIndex,       \* aligned: position of the for loop over sheetInput
  sheetRemaining,  \* aligned: packChipboard's remainingParts
  partsToProcess,  \* horizontal: createChipboardHorizontal's partsToProcess
  remainders,      \* horizontal: createChipboardHorizontal's remainders
  iterationCount,  \* horizontal: createChipboardHorizontal's iterationCount
  statistics,      \* PlacementStatistics of the returned result
  edits,           \* view: manual edits made to the displayed result
  remainderCall    \* the last call of recalculateRemainders: its parts
                   \* argument and what it returned

vars == <<algorithm, chipboard, parts, sawThickness, phase, partInstances,
          remainingParts, chipboards, chipboardCount, placedParts,
          freeRectangles, horizontalCuts, verticalCuts, sheetInput, partIndex,
          sheetRemaining, partsToProcess, remainders, iterationCount,
          statistics, edits, remainderCall>>

viewVars == <<edits, remainderCall>>

inputVars == <<algorithm, chipboard, parts, sawThickness>>

alignedLocals == <<horizontalCuts, verticalCuts, sheetInput, partIndex,
                   sheetRemaining>>

horizontalLocals == <<chipboardCount, partsToProcess, remainders,
                      iterationCount>>

(***************************************************************************)
(* Bounds of the model.                                                    *)
(***************************************************************************)
SheetWidth == 7     \* chipboard.dimensions.width of the inputs
SheetHeight == 6    \* chipboard.dimensions.height of the inputs
MaxMargin == 2      \* chipboard.margin ranges over 0..MaxMargin
MaxKerf == 1        \* sawThickness ranges over 0..MaxKerf
MaxDim == 4         \* part width and height range over 1..MaxDim
MaxCount == 3       \* ProjectPart.count ranges over 1..MaxCount
MaxSpecs == 2       \* number of ProjectParts of a project: 1..MaxSpecs
MaxSheets == 6      \* aligned packer: sheets kept before the model stops
maxChipboards == 7  \* horizontal packer: sheet limit (1000 in the source)
MaxPvcDim == 3      \* edge-banded inputs: width and height are 1 or MaxPvcDim
MaxUncheckedDim == 2    \* unchecked inputs: width and height in 0..this
MaxUncheckedCount == 1  \* unchecked inputs: count in 0..this
MaxViewDim == 3     \* results shown in the view: width and height are 1 or this
MaxEdits == 1       \* view: manual edits made to a displayed result
MaxUuidDraws == 2   \* outcomes of the random draws of uuidv4 in one run
LayoutWidth == 4    \* any layout: chipboard.dimensions.width
LayoutHeight == 3   \* any layout: chipboard.dimensions.height
MaxLayoutMargin == 1 \* any layout: chipboard.margin ranges over 0..this
MaxLayoutDim == 2   \* any layout: part width and height in 1..this
MaxLayoutParts == 3 \* any layout: number of placed parts, 0..this
MaxRotations == 3   \* view: manual rotations made to a displayed result

(***************************************************************************)
(* Helpers.                                                                *)
(***************************************************************************)
Min(S) == CHOOSE m \in S : \A n \in S : m <= n

Infinity == 1000000

\* Array.prototype.sort: stable; cmp[i, j] is the comparator's result for
\* seq[i] and seq[j], and a negative result puts seq[i] first
SortStable(seq, cmp) ==
  LET n == Len(seq)
      rank(i) == Cardinality({j \in 1..n :
                    \/ cmp[j, i] < 0
                    \/ (cmp[j, i] = 0 /\ j < i)})
  IN [k \in 1..n |-> seq[CHOOSE i \in 1..n : rank(i) = k - 1]]

\* Array.prototype.splice(index, 1)
RemoveAt(seq, index) ==
  [k \in 1..(Len(seq) - 1) |-> IF k < index THEN seq[k] ELSE seq[k + 1]]

\* pvcEdges?: undefined when the part has no edge banding
NoPvc == [undefined |-> TRUE]

\* Array.prototype.flat: the concatenation of a sequence of sequences
RECURSIVE Flatten(_)
Flatten(sheets) ==
  IF sheets = <<>> THEN <<>> ELSE Head(sheets) \o Flatten(Tail(sheets))

(***************************************************************************)
(* Inputs.                                                                 *)
(***************************************************************************)
PvcInputs == {NoPvc}

ProjectParts ==
  [width : 1..MaxDim, height : 1..MaxDim, canRotate : BOOLEAN,
   count : 1..MaxCount, pvcEdges : PvcInputs]

PartLists == UNION {[1..n -> ProjectParts] : n \in 1..MaxSpecs}

Chipboards ==
  [width : {SheetWidth}, height : {SheetHeight}, margin : 0..MaxMargin]

\* inputs with edge banding: every combination of the four PvcEdges flags
PvcEdgeSets ==
  [top : BOOLEAN, right : BOOLEAN, bottom : BOOLEAN, left : BOOLEAN]

PvcProjectParts ==
  [width : {1, MaxPvcDim}, height : {1, MaxPvcDim}, canRotate : BOOLEAN,
   count : {1}, pvcEdges : {NoPvc} \cup PvcEdgeSets]

PvcPartLists == UNION {[1..n -> PvcProjectParts] : n \in 1..MaxSpecs}

\* inputs as importProjectFromCSV hands them on: parseFloat / parseInt of the cells,
\* with no check of the dimensions, the count or the margin
UncheckedProjectParts ==
  [width : 0..MaxUncheckedDim, height : 0..MaxUncheckedDim,
   canRotate : BOOLEAN, count : 0..MaxUncheckedCount, pvcEdges : {NoPvc}]

UncheckedPartLists ==
  UNION {[1..n -> UncheckedProjectParts] : n \in 1..MaxSpecs}

UncheckedChipboards ==
  [width : {SheetWidth}, height : {SheetHeight},
   margin : 0..(SheetHeight \div 2)]

(***************************************************************************)
(* Expansion of the parts by count (both optimizePlacement variants).      *)
(* uuidv4() returns a random identifier: what the n-th call of a run        *)
(* returns depends on the run's random draw, and no two calls return the   *)
(* same. partId is the position of the ProjectPart.                        *)
(***************************************************************************)
UuidDraws == 1..MaxUuidDraws

uuidv4(draw, n) == <<draw, n>>

RECURSIVE ExpandFrom(_, _, _, _)
ExpandFrom(ps, s, acc, draw) ==
  IF s > Len(ps) THEN acc
  ELSE ExpandFrom(ps, s + 1,
         acc \o [i \in 1..ps[s].count |->
                   [id |-> uuidv4(draw, Len(acc) + i), partId |-> s,
                    width |-> ps[s].width, height |-> ps[s].height,
                    canRotate |-> ps[s].canRotate,
                    pvcEdges |-> ps[s].pvcEdges]],
         draw)

ExpandParts(ps, draw) == ExpandFrom(ps, 1, <<>>, draw)

(***************************************************************************)
(* Geometry of the result, used by the properties.                         *)
(***************************************************************************)
UsableLeft == chipboard.margin
UsableTop == chipboard.margin
UsableRight == chipboard.width - chipboard.margin
UsableBottom == chipboard.height - chipboard.margin

Overlaps(p, q) ==
  /\ p.x < q.x + q.width
  /\ q.x < p.x + p.width
  /\ p.y < q.y + q.height
  /\ q.y < p.y + p.height

WithinUsable(p) ==
  /\ UsableLeft <= p.x
  /\ p.x + p.width <= UsableRight
  /\ UsableTop <= p.y
  /\ p.y + p.height <= UsableBottom

TouchesBoundary(p) ==
  \/ p.x = UsableLeft
  \/ p.y = UsableTop
  \/ p.x + p.width = UsableRight
  \/ p.y + p.height = UsableBottom

\* every sheet of parts there is: the finished ones and the one being packed
AllSheets ==
  [k \in 1..Len(chipboards) |-> chipboards[k].parts]
    \o (IF phase = "sheet" THEN <<placedParts>> ELSE <<>>)

(***************************************************************************)
(* Cut lines of a sheet (generateCutLines / addCut, the same code in both  *)
(* packers): one full-span line per part edge, de-duplicated by its key.   *)
(***************************************************************************)
Abs(n) == IF n < 0 THEN 0 - n ELSE n

\* Math.sqrt(dx^2 + dy^2) of a line with dx = 0 or dy = 0
LineLength(line) ==
  IF line.x1 = line.x2 THEN Abs(line.y2 - line.y1) ELSE Abs(line.x2 - line.x1)

addCut(cutLines, line) ==
  IF \E k \in 1..Len(cutLines) :
       /\ cutLines[k].x1 = line.x1 /\ cutLines[k].y1 = line.y1
       /\ cutLines[k].x2 = line.x2 /\ cutLines[k].y2 = line.y2
  THEN cutLines
  ELSE Append(cutLines, [x1 |-> line.x1, y1 |-> line.y1, x2 |-> line.x2,
                         y2 |-> line.y2, length |-> LineLength(line)])

RECURSIVE GenerateCutLinesFrom(_, _, _, _)
GenerateCutLinesFrom(ps, i, board, cutLines) ==
  IF i > Len(ps) THEN cutLines
  ELSE
    LET part == ps[i]
        leftCut == part.x
        rightCut == part.x + part.width
        bottomCut == part.y
        topCut == part.y + part.height
        c1 == addCut(cutLines, [x1 |-> leftCut, y1 |-> board.margin,
                x2 |-> leftCut, y2 |-> board.height - board.margin])
        c2 == addCut(c1, [x1 |-> rightCut, y1 |-> board.margin,
                x2 |-> rightCut, y2 |-> board.height - board.margin])
        c3 == addCut(c2, [x1 |-> board.margin, y1 |-> bottomCut,
                x2 |-> board.width - board.margin, y2 |-> bottomCut])
        c4 == addCut(c3, [x1 |-> board.margin, y1 |-> topCut,
                x2 |-> board.width - board.margin, y2 |-> topCut])
    IN GenerateCutLinesFrom(ps, i + 1, board, c4)

generateCutLines(ps, board) == GenerateCutLinesFrom(ps, 1, board, <<>>)

(***************************************************************************)
(* Statistics of a result (calculateStatistics of either packer).          *)
(* efficiency is kept in hundredths of a percent: the code rounds the      *)
(* percentage to two decimals.                                             *)
(***************************************************************************)
NoStatistics == "undefined"

\* Math.round(n / d) of non-negative n and positive d
RoundDiv(n, d) == (2 * n + d) \div (2 * d)

RECURSIVE SumCutLength(_)
SumCutLength(cutLines) ==
  IF cutLines = <<>> THEN 0
  ELSE Head(cutLines).length + SumCutLength(Tail(cutLines))

RECURSIVE SumArea(_)
SumArea(ps) ==
  IF ps = <<>> THEN 0
  ELSE Head(ps).width * Head(ps).height + SumArea(Tail(ps))

\* edge banding of one placed part, in its final orientation
PvcLength(part) ==
  IF part.pvcEdges = NoPvc THEN 0
  ELSE (IF part.pvcEdges.top THEN part.width ELSE 0)
       + (IF part.pvcEdges.bottom THEN part.width ELSE 0)
       + (IF part.pvcEdges.left THEN part.height ELSE 0)
       + (IF part.pvcEdges.right THEN part.height ELSE 0)

RECURSIVE SumPvcLength(_)
SumPvcLength(ps) ==
  IF ps = <<>> THEN 0 ELSE PvcLength(Head(ps)) + SumPvcLength(Tail(ps))

RECURSIVE SumOverBoards(_, _)
SumOverBoards(boards, what) ==
  IF boards = <<>> THEN 0
  ELSE (CASE what = "operations" -> Len(Head(boards).cutLines)
          [] what = "length" -> SumCutLength(Head(boards).cutLines)
          [] what = "area" -> SumArea(Head(boards).parts)
          [] what = "pvc" -> SumPvcLength(Head(boards).parts))
       + SumOverBoards(Tail(boards), what)

\* Efficiency taking the margin off twice on each side
EfficiencyMarginTwice(boards, board) ==
  LET totalUsedArea == SumOverBoards(boards, "area")
      totalAvailableArea ==
        Len(boards) * (board.width - 4 * board.margin)
                    * (board.height - 4 * board.margin)
  IN IF totalAvailableArea > 0
     THEN RoundDiv(totalUsedArea * 10000, totalAvailableArea)
     ELSE 0

Efficiency(boards, board) ==
  LET totalUsedArea == SumOverBoards(boards, "area")
      totalAvailableArea ==
        Len(boards) * (board.width - 2 * board.margin)
                    * (board.height - 2 * board.margin)
  IN IF totalAvailableArea > 0
     THEN RoundDiv(totalUsedArea * 10000, totalAvailableArea)
     ELSE 0

\* calculateStatistics of src/utils/placement.ts
calculateStatisticsA(boards, totalParts, board) ==
  [totalParts |-> totalParts,
   totalChipboards |-> Len(boards),
   totalCutLength |-> SumOverBoards(boards, "length"),
   totalCutOperations |-> SumOverBoards(boards, "operations"),
   efficiency |-> Efficiency(boards, board)]

\* calculateStatistics of the horizontal packer: the same plus the edge banding
calculateStatisticsH(boards, totalParts, board) ==
  [totalParts |-> totalParts,
   totalChipboards |-> Len(boards),
   totalCutLength |-> SumOverBoards(boards, "length"),
   totalCutOperations |-> SumOverBoards(boards, "operations"),
   efficiency |-> Efficiency(boards, board),
   totalPvcLength |-> SumOverBoards(boards, "pvc")]

(***************************************************************************)
(* The alignment-scored guillotine packer (src/utils/placement.ts).        *)
(***************************************************************************)
\* comparator of partInstances.sort: larger area first
CompareArea(a, b) == b.width * b.height - a.width * a.height

\* first cut, in ascending order, at which the part still fits the rectangle
findAlignedPosition(rect, partWidth, partHeight, hCuts, vCuts) ==
  LET xs == {cutX \in vCuts :
               cutX >= rect.x /\ cutX + partWidth <= rect.x + rect.width}
      ys == {cutY \in hCuts :
               cutY >= rect.y /\ cutY + partHeight <= rect.y + rect.height}
  IN [x |-> IF xs # {} THEN Min(xs) ELSE rect.x,
      y |-> IF ys # {} THEN Min(ys) ELSE rect.y,
      alignmentScore |-> (IF xs # {} THEN 1 ELSE 0)
                           + (IF ys # {} THEN 1 ELSE 0)]

\* one candidate of findBestPlacement: rectangle number r, one orientation
Candidate(rects, r, w, h, rotated, order, hCuts, vCuts) ==
  LET rect == rects[r]
      alignedPos == findAlignedPosition(rect, w, h, hCuts, vCuts)
      areaScore == rect.width * rect.height
      alignmentBonus == alignedPos.alignmentScore * 1000
  IN [x |-> alignedPos.x, y |-> alignedPos.y, width |-> w, height |-> h,
      rotated |-> rotated, rect |-> r, score |-> areaScore - alignmentBonus,
      order |-> order]

\* PlacementCandidates trying the rotated orientation of every part
PlacementCandidatesAnyRotation(part, rects, hCuts, vCuts) ==
  {Candidate(rects, r, part.width, part.height, FALSE, 2 * r - 1,
             hCuts, vCuts) :
     r \in {k \in 1..Len(rects) :
              /\ part.width <= rects[k].width
              /\ part.height <= rects[k].height}}
  \cup
  {Candidate(rects, r, part.height, part.width, TRUE, 2 * r, hCuts, vCuts) :
     r \in {k \in 1..Len(rects) :
              /\ part.height <= rects[k].width
              /\ part.width <= rects[k].height}}

PlacementCandidates(part, rects, hCuts, vCuts) ==
  {Candidate(rects, r, part.width, part.height, FALSE, 2 * r - 1,
             hCuts, vCuts) :
     r \in {k \in 1..Len(rects) :
              /\ part.width <= rects[k].width
              /\ part.height <= rects[k].height}}
  \cup
  {Candidate(rects, r, part.height, part.width, TRUE, 2 * r, hCuts, vCuts) :
     r \in {k \in 1..Len(rects) :
              /\ part.canRotate
              /\ part.height <= rects[k].width
              /\ part.width <= rects[k].height}}

NoPlacement == [rect |-> 0]

\* the candidates are visited rectangle by rectangle, normal orientation
\* first, and a later one replaces the best only on a strictly lower score
findBestPlacement(part, rects, hCuts, vCuts) ==
  LET cands == PlacementCandidates(part, rects, hCuts, vCuts)
  IN IF cands = {} THEN NoPlacement
     ELSE CHOOSE c \in cands :
            \A d \in cands :
              c.score < d.score \/ (c.score = d.score /\ c.order <= d.order)

\* splitRectangle: the used rectangle (number `used`) is replaced by the
\* rectangle right of the part and the rectangle above it
splitRectangle(rects, used, placement, kerf) ==
  LET usedRect == rects[used]
      rest == RemoveAt(rects, used)
      partWidth == placement.width + kerf
      partHeight == placement.height + kerf
      rightWidth == usedRect.width - partWidth
      topHeight == usedRect.height - partHeight
      withRight ==
        IF rightWidth > 0
        THEN Append(rest, [x |-> placement.x + partWidth, y |-> usedRect.y,
                           width |-> rightWidth, height |-> usedRect.height])
        ELSE rest
  IN IF topHeight > 0
     THEN Append(withRight, [x |-> usedRect.x, y |-> placement.y + partHeight,
                             width |-> partWidth, height |-> topHeight])
     ELSE withRight

\* optimizePlacement, lines 32-54: expand, sort by area, copy
StartA ==
  /\ phase = "idle"
  /\ algorithm = "aligned"
  /\ \E draw \in UuidDraws :
       partInstances' =
         LET expanded == ExpandParts(parts, draw)
         IN SortStable(expanded,
              [i, j \in 1..Len(expanded) |->
                 CompareArea(expanded[i], expanded[j])])
  /\ remainingParts' = partInstances'
  /\ chipboards' = <<>>
  /\ phase' = "loop"
  /\ UNCHANGED <<inputVars, viewVars, statistics, placedParts, freeRectangles, alignedLocals,
                 horizontalLocals>>

\* while (remainingParts.length > 0): packChipboard is entered
BeginSheetA ==
  /\ phase = "loop"
  /\ algorithm = "aligned"
  /\ Len(remainingParts) > 0
  /\ Len(chipboards) < MaxSheets
  /\ sheetInput' = remainingParts
  /\ placedParts' = <<>>
  /\ sheetRemaining' = <<>>
  /\ horizontalCuts' = {chipboard.margin}
  /\ verticalCuts' = {chipboard.margin}
  /\ freeRectangles' =
       <<[x |-> chipboard.margin, y |-> chipboard.margin,
          width |-> chipboard.width - 2 * chipboard.margin,
          height |-> chipboard.height - 2 * chipboard.margin]>>
  /\ partIndex' = 1
  /\ phase' = "sheet"
  /\ UNCHANGED <<inputVars, viewVars, statistics, partInstances, remainingParts, chipboards,
                 horizontalLocals>>

\* one pass of `for (const part of parts)` in packChipboard
PlacePartA ==
  /\ phase = "sheet"
  /\ algorithm = "aligned"
  /\ partIndex <= Len(sheetInput)
  /\ \E placement \in {findBestPlacement(sheetInput[partIndex], freeRectangles,
                                         horizontalCuts, verticalCuts)} :
       LET part == sheetInput[partIndex]
       IN IF placement # NoPlacement
          THEN /\ placedParts' = Append(placedParts,
                    [id |-> part.id, partId |-> part.partId,
                     width |-> placement.width, height |-> placement.height,
                     x |-> placement.x, y |-> placement.y,
                     rotated |-> placement.rotated])
               /\ horizontalCuts' = horizontalCuts
                    \cup {placement.y, placement.y + placement.height}
               /\ verticalCuts' = verticalCuts
                    \cup {placement.x, placement.x + placement.width}
               /\ freeRectangles' = splitRectangle(freeRectangles,
                    placement.rect, placement, sawThickness)
               /\ UNCHANGED sheetRemaining
          ELSE /\ sheetRemaining' = Append(sheetRemaining, part)
               /\ UNCHANGED <<placedParts, horizontalCuts, verticalCuts,
                              freeRectangles>>
  /\ partIndex' = partIndex + 1
  /\ UNCHANGED <<inputVars, viewVars, statistics, phase, partInstances, remainingParts, chipboards,
                 sheetInput, horizontalLocals>>

\* the for loop is over: packChipboard returns and the sheet is pushed
EndSheetA ==
  /\ phase = "sheet"
  /\ algorithm = "aligned"
  /\ partIndex > Len(sheetInput)
  /\ chipboards' = Append(chipboards,
       [parts |-> placedParts,
        cutLines |-> generateCutLines(placedParts, chipboard)])
  /\ remainingParts' = sheetRemaining
  /\ phase' = "loop"
  /\ UNCHANGED <<inputVars, viewVars, statistics, partInstances, placedParts, freeRectangles,
                 alignedLocals, horizontalLocals>>

\* remainingParts is empty: optimizePlacement returns
FinishA ==
  /\ phase = "loop"
  /\ algorithm = "aligned"
  /\ Len(remainingParts) = 0
  /\ statistics' = calculateStatisticsA(chipboards, Len(partInstances),
                                        chipboard)
  /\ phase' = "done"
  /\ UNCHANGED <<inputVars, viewVars, partInstances, remainingParts, chipboards,
                 placedParts, freeRectangles, alignedLocals, horizontalLocals>>

\* nothing has run yet
InitLocals ==
  /\ phase = "idle"
  /\ partInstances = <<>>
  /\ remainingParts = <<>>
  /\ chipboards = <<>>
  /\ chipboardCount = 0
  /\ placedParts = <<>>
  /\ freeRectangles = <<>>
  /\ horizontalCuts = {}
  /\ verticalCuts = {}
  /\ sheetInput = <<>>
  /\ partIndex = 0
  /\ sheetRemaining = <<>>
  /\ partsToProcess = <<>>
  /\ remainders = <<>>
  /\ iterationCount = 0
  /\ statistics = NoStatistics
  /\ edits = 0
  /\ remainderCall = [called |-> FALSE, parts |-> <<>>, remainders |-> <<>>]

InitInputs ==
  /\ chipboard \in Chipboards
  /\ parts \in PartLists
  /\ sawThickness \in 0..MaxKerf
  /\ InitLocals

InitA == algorithm = "aligned" /\ InitInputs

NextA == StartA \/ BeginSheetA \/ PlacePartA \/ EndSheetA \/ FinishA

SpecA == InitA /\ [][NextA]_vars

(***************************************************************************)
(* The horizontal guillotine packer (optimizePlacement and                 *)
(* createChipboardHorizontal).                                             *)
(***************************************************************************)
maxIterations == 10000

maxFreeBoards == 1000

\* ComparePartLength without the tie-break on the height
ComparePartLengthOnly(a, b) == b.width - a.width

\* comparator of partInstances.sort: longer first, then wider first
ComparePartLength(a, b) ==
  IF a.width # b.width THEN b.width - a.width ELSE b.height - a.height

\* comparator of freeBoards.sort: longer first, then taller first
CompareBoardLength(a, b) ==
  IF a.width # b.width THEN b.width - a.width ELSE b.height - a.height

\* comparator of the sort that keeps the largest free boards
CompareBoardArea(a, b) == b.width * b.height - a.width * a.height

\* FirstPartFits with the margin forgotten on the far sides
FirstPartFitsWholeBoard(board, firstPart) ==
  LET firstPartRight == board.margin + firstPart.width
      firstPartBottom == board.margin + firstPart.height
  IN ~(firstPartRight > board.width \/ firstPartBottom > board.height)

\* does the first part of a fresh sheet fit (createChipboardHorizontal 139-145)
FirstPartFits(board, firstPart) ==
  LET firstPartRight == board.margin + firstPart.width
      firstPartBottom == board.margin + firstPart.height
      chipboardRight == board.width - board.margin
      chipboardBottom == board.height - board.margin
  IN ~(firstPartRight > chipboardRight \/ firstPartBottom > chipboardBottom)

\* the free boards right of and below the first part, as pushed
FirstBoards(board, firstPart, kerf) ==
  LET rightX == board.margin + firstPart.width + kerf
      rightY == board.margin
      rightWidth == board.width - rightX - board.margin
      rightHeight == firstPart.height
      bottomX == board.margin
      bottomY == board.margin + firstPart.height + kerf
      bottomWidth == board.width - 2 * board.margin
      bottomHeight == board.height - bottomY - board.margin
  IN (IF rightWidth > 0 /\ rightHeight > 0
      THEN <<[x |-> rightX, y |-> rightY, width |-> rightWidth,
              height |-> rightHeight]>>
      ELSE <<>>)
     \o
     (IF bottomWidth > 0 /\ bottomHeight > 0
      THEN <<[x |-> bottomX, y |-> bottomY, width |-> bottomWidth,
              height |-> bottomHeight]>>
      ELSE <<>>)

\* a remainder entry of a free board
AsRemainder(board, createdFrom) ==
  [x |-> board.x, y |-> board.y, width |-> board.width,
   height |-> board.height, area |-> board.width * board.height,
   createdFrom |-> createdFrom]

\* Array.prototype.filter
RECURSIVE FilterBoards(_, _, _)
FilterBoards(boards, minPartWidth, minPartHeight) ==
  IF boards = <<>> THEN <<>>
  ELSE (IF Head(boards).width >= minPartWidth
           /\ Head(boards).height >= minPartHeight
        THEN <<Head(boards)>> ELSE <<>>)
       \o FilterBoards(Tail(boards), minPartWidth, minPartHeight)

\* lines 246-275: the free boards as filtered, limited and sorted at the top
\* of one pass of the while loop
PreparedBoards(boards, toProcess) ==
  LET minPartWidth ==
        Min({Min({toProcess[k].width,
                  IF toProcess[k].canRotate THEN toProcess[k].height
                  ELSE Infinity}) : k \in 1..Len(toProcess)})
      minPartHeight ==
        Min({Min({toProcess[k].height,
                  IF toProcess[k].canRotate THEN toProcess[k].width
                  ELSE Infinity}) : k \in 1..Len(toProcess)})
      filtered == IF Len(toProcess) > 0
                  THEN FilterBoards(boards, minPartWidth, minPartHeight)
                  ELSE boards
      limited == IF Len(filtered) > maxFreeBoards
                 THEN SubSeq(SortStable(filtered,
                               [i, j \in 1..Len(filtered) |->
                                  CompareBoardArea(filtered[i], filtered[j])]),
                             1, maxFreeBoards)
                 ELSE filtered
  IN IF Len(limited) = 0 THEN limited
     ELSE SortStable(limited,
            [i, j \in 1..Len(limited) |->
               CompareBoardLength(limited[i], limited[j])])

NoFit == [boardIndex |-> 0]

\* lines 282-330: the board and orientation of least remainder for one part;
\* the unrotated candidates are visited first and a later candidate wins
\* only with a strictly smaller remainder
BestFit(board, boards, part) ==
  LET chipboardRight == board.width - board.margin
      chipboardBottom == board.height - board.margin
      fits(j, w, h) ==
        /\ w <= boards[j].width /\ h <= boards[j].height
        /\ boards[j].x + w <= chipboardRight
        /\ boards[j].y + h <= chipboardBottom
      normal == {j \in 1..Len(boards) : fits(j, part.width, part.height)}
      turned == {j \in 1..Len(boards) :
                   part.canRotate /\ fits(j, part.height, part.width)}
      remN(j) == (boards[j].width - part.width) * boards[j].height
      remT(j) == (boards[j].width - part.height) * boards[j].height
      bestN == CHOOSE j \in normal :
                 \A k \in normal : remN(j) < remN(k) \/ (remN(j) = remN(k) /\ j <= k)
      bestT == CHOOSE j \in turned :
                 \A k \in turned : remT(j) < remT(k) \/ (remT(j) = remT(k) /\ j <= k)
      asNormal == [boardIndex |-> bestN, width |-> part.width,
                   height |-> part.height, rotated |-> FALSE]
      asTurned == [boardIndex |-> bestT, width |-> part.height,
                   height |-> part.width, rotated |-> TRUE]
  IN IF normal = {} /\ turned = {} THEN NoFit
     ELSE IF turned = {} THEN asNormal
     ELSE IF normal = {} THEN asTurned
     ELSE IF remT(bestT) < remN(bestN) THEN asTurned
     ELSE asNormal

\* PlacedPvcEdges leaving the edges where they were on a rotated part
PlacedPvcEdgesUnmapped(part, rotated) == part.pvcEdges

\* PlacedPvcEdges turning the edges the other way round
PlacedPvcEdgesCounterClockwise(part, rotated) ==
  IF rotated /\ part.pvcEdges # NoPvc
  THEN [top |-> part.pvcEdges.right, right |-> part.pvcEdges.bottom,
        bottom |-> part.pvcEdges.left, left |-> part.pvcEdges.top]
  ELSE part.pvcEdges

\* lines 347-352: the PvcEdges of a placed part
PlacedPvcEdges(part, rotated) ==
  IF rotated /\ part.pvcEdges # NoPvc
  THEN [top |-> part.pvcEdges.left, right |-> part.pvcEdges.top,
        bottom |-> part.pvcEdges.right, left |-> part.pvcEdges.bottom]
  ELSE part.pvcEdges

\* SplitBoard with the board right of the part as tall as the used board
\* in every case
SplitBoardTallRight(used, orientation, kerf) ==
  LET widthMatches == Abs(orientation.width - used.width) * 100 < 1
      heightMatches == Abs(orientation.height - used.height) * 100 < 1
      below == [x |-> used.x, y |-> used.y + orientation.height + kerf,
                width |-> used.width,
                height |-> used.height - orientation.height - kerf]
      rightFull == [x |-> used.x + orientation.width + kerf, y |-> used.y,
                    width |-> used.width - orientation.width - kerf,
                    height |-> used.height]
      keep(b) == IF b.width > 0 /\ b.height > 0 THEN <<b>> ELSE <<>>
  IN IF widthMatches /\ heightMatches THEN <<>>
     ELSE IF widthMatches /\ ~heightMatches THEN keep(below)
     ELSE IF ~widthMatches /\ heightMatches THEN keep(rightFull)
     ELSE keep(rightFull) \o keep(below)

\* SplitBoard with the kerf left out of the origins of the new boards
SplitBoardNoKerf(used, orientation, kerf) ==
  LET widthMatches == Abs(orientation.width - used.width) * 100 < 1
      heightMatches == Abs(orientation.height - used.height) * 100 < 1
      below == [x |-> used.x, y |-> used.y + orientation.height,
                width |-> used.width,
                height |-> used.height - orientation.height - kerf]
      rightFull == [x |-> used.x + orientation.width, y |-> used.y,
                    width |-> used.width - orientation.width - kerf,
                    height |-> used.height]
      rightOfPart == [x |-> used.x + orientation.width, y |-> used.y,
                      width |-> used.width - orientation.width - kerf,
                      height |-> orientation.height]
      keep(b) == IF b.width > 0 /\ b.height > 0 THEN <<b>> ELSE <<>>
  IN IF widthMatches /\ heightMatches THEN <<>>
     ELSE IF widthMatches /\ ~heightMatches THEN keep(below)
     ELSE IF ~widthMatches /\ heightMatches THEN keep(rightFull)
     ELSE keep(rightOfPart) \o keep(below)

\* lines 374-473: the free boards a placement leaves of the board it used
SplitBoard(used, orientation, kerf) ==
  LET widthMatches == Abs(orientation.width - used.width) * 100 < 1
      heightMatches == Abs(orientation.height - used.height) * 100 < 1
      below == [x |-> used.x, y |-> used.y + orientation.height + kerf,
                width |-> used.width,
                height |-> used.height - orientation.height - kerf]
      rightFull == [x |-> used.x + orientation.width + kerf, y |-> used.y,
                    width |-> used.width - orientation.width - kerf,
                    height |-> used.height]
      rightOfPart == [x |-> used.x + orientation.width + kerf, y |-> used.y,
                      width |-> used.width - orientation.width - kerf,
                      height |-> orientation.height]
      keep(b) == IF b.width > 0 /\ b.height > 0 THEN <<b>> ELSE <<>>
  IN IF widthMatches /\ heightMatches THEN <<>>
     ELSE IF widthMatches /\ ~heightMatches THEN keep(below)
     ELSE IF ~widthMatches /\ heightMatches THEN keep(rightFull)
     ELSE keep(rightOfPart) \o keep(below)

\* lines 364-372: the remainder of the consumed board leaves the list
DropRemainder(rems, used) ==
  LET hits == {k \in 1..Len(rems) :
                 /\ rems[k].x = used.x /\ rems[k].y = used.y
                 /\ rems[k].width = used.width
                 /\ rems[k].height = used.height}
  IN IF hits = {} THEN rems ELSE RemoveAt(rems, Min(hits))

\* lines 280-477: the first part, in order, that fits some free board
FirstPlaceable(board, boards, toProcess) ==
  LET able == {i \in 1..Len(toProcess) :
                 BestFit(board, boards, toProcess[i]) # NoFit}
  IN IF able = {} THEN 0 ELSE Min(able)

\* optimizePlacement, lines 27-56: expand, sort by length, copy
StartH ==
  /\ phase = "idle"
  /\ algorithm = "horizontal"
  /\ \E draw \in UuidDraws :
       partInstances' =
         LET expanded == ExpandParts(parts, draw)
         IN SortStable(expanded,
              [i, j \in 1..Len(expanded) |->
                 ComparePartLength(expanded[i], expanded[j])])
  /\ remainingParts' = partInstances'
  /\ chipboards' = <<>>
  /\ chipboardCount' = 0
  /\ phase' = "loop"
  /\ UNCHANGED <<inputVars, viewVars, statistics, placedParts, freeRectangles, alignedLocals,
                 partsToProcess, remainders, iterationCount>>

\* EmptySheetH handing back the remaining parts without the first one
EmptySheetHDropsFirst ==
  /\ phase = "loop"
  /\ algorithm = "horizontal"
  /\ Len(remainingParts) > 0
  /\ chipboardCount < maxChipboards
  /\ ~FirstPartFits(chipboard, Head(remainingParts))
  /\ chipboardCount' = chipboardCount + 1
  /\ chipboards' = Append(chipboards, [parts |-> <<>>, cutLines |-> <<>>])
  /\ remainingParts' = Tail(remainingParts)
  /\ UNCHANGED <<inputVars, viewVars, statistics, phase, partInstances, placedParts,
                 freeRectangles, alignedLocals, partsToProcess, remainders,
                 iterationCount>>

\* one pass of the sheet loop whose first part does not fit: the call of
\* createChipboardHorizontal returns an empty chipboard at once
EmptySheetH ==
  /\ phase = "loop"
  /\ algorithm = "horizontal"
  /\ Len(remainingParts) > 0
  /\ chipboardCount < maxChipboards
  /\ ~FirstPartFits(chipboard, Head(remainingParts))
  /\ chipboardCount' = chipboardCount + 1
  /\ chipboards' = Append(chipboards, [parts |-> <<>>, cutLines |-> <<>>])
  /\ remainingParts' = <<Head(remainingParts)>> \o Tail(remainingParts)
  /\ UNCHANGED <<inputVars, viewVars, statistics, phase, partInstances, placedParts,
                 freeRectangles, alignedLocals, partsToProcess, remainders,
                 iterationCount>>

\* one pass of the sheet loop whose first part fits: it is placed at the
\* top-left corner and the first two free boards are cut (lines 157-241)
BeginSheetH ==
  /\ phase = "loop"
  /\ algorithm = "horizontal"
  /\ Len(remainingParts) > 0
  /\ chipboardCount < maxChipboards
  /\ FirstPartFits(chipboard, Head(remainingParts))
  /\ LET firstPart == Head(remainingParts)
         boards == FirstBoards(chipboard, firstPart, sawThickness)
     IN /\ placedParts' =
             <<[id |-> firstPart.id, partId |-> firstPart.partId,
                width |-> firstPart.width, height |-> firstPart.height,
                x |-> chipboard.margin, y |-> chipboard.margin,
                rotated |-> FALSE, canRotate |-> firstPart.canRotate,
                pvcEdges |-> firstPart.pvcEdges]>>
        /\ freeRectangles' = boards
        /\ remainders' = [k \in 1..Len(boards) |->
                            AsRemainder(boards[k], firstPart.id)]
  /\ chipboardCount' = chipboardCount + 1
  /\ remainingParts' = Tail(remainingParts)
  /\ partsToProcess' = Tail(remainingParts)
  /\ iterationCount' = 0
  /\ phase' = "sheet"
  /\ UNCHANGED <<inputVars, viewVars, statistics, partInstances, chipboards, alignedLocals>>

\* one pass of the while loop of createChipboardHorizontal that places a part
PlacePartH ==
  /\ phase = "sheet"
  /\ algorithm = "horizontal"
  /\ Len(partsToProcess) > 0
  /\ iterationCount < maxIterations
  /\ \E boards \in {PreparedBoards(freeRectangles, partsToProcess)} :
       /\ Len(boards) > 0
       /\ \E i \in {FirstPlaceable(chipboard, boards, partsToProcess)} :
            /\ i > 0
            /\ \E bestOrientation \in
                   {BestFit(chipboard, boards, partsToProcess[i])} :
                 LET part == partsToProcess[i]
                     used == boards[bestOrientation.boardIndex]
                     created == SplitBoard(used, bestOrientation, sawThickness)
                 IN /\ placedParts' = Append(placedParts,
                         [id |-> part.id, partId |-> part.partId,
                          width |-> bestOrientation.width,
                          height |-> bestOrientation.height,
                          x |-> used.x, y |-> used.y,
                          rotated |-> bestOrientation.rotated,
                          canRotate |-> part.canRotate,
                          pvcEdges |-> PlacedPvcEdges(part, bestOrientation.rotated)])
                    /\ partsToProcess' = RemoveAt(partsToProcess, i)
                    /\ freeRectangles' =
                         RemoveAt(boards, bestOrientation.boardIndex) \o created
                    /\ remainders' = DropRemainder(remainders, used)
                         \o [k \in 1..Len(created) |-> AsRemainder(created[k], part.id)]
  /\ iterationCount' = iterationCount + 1
  /\ UNCHANGED <<inputVars, viewVars, statistics, phase, partInstances, remainingParts, chipboards,
                 chipboardCount, alignedLocals>>

\* the while loop ends (no parts, no boards, or no part fits any board):
\* createChipboardHorizontal returns and the sheet is pushed
EndSheetH ==
  /\ phase = "sheet"
  /\ algorithm = "horizontal"
  /\ ~(/\ Len(partsToProcess) > 0
       /\ iterationCount < maxIterations
       /\ \E boards \in {PreparedBoards(freeRectangles, partsToProcess)} :
            /\ Len(boards) > 0
            /\ FirstPlaceable(chipboard, boards, partsToProcess) > 0)
  /\ chipboards' = Append(chipboards,
       [parts |-> placedParts,
        cutLines |-> generateCutLines(placedParts, chipboard),
        remainders |-> remainders])
  /\ remainingParts' = partsToProcess
  /\ phase' = "loop"
  /\ UNCHANGED <<inputVars, viewVars, statistics, partInstances, chipboardCount, placedParts,
                 freeRectangles, alignedLocals, partsToProcess, remainders,
                 iterationCount>>

\* the sheet loop ends: nothing remains or maxChipboards sheets were made
FinishH ==
  /\ phase = "loop"
  /\ algorithm = "horizontal"
  /\ ~(Len(remainingParts) > 0 /\ chipboardCount < maxChipboards)
  /\ statistics' = calculateStatisticsH(chipboards, Len(partInstances),
                                        chipboard)
  /\ phase' = "done"
  /\ UNCHANGED <<inputVars, viewVars, partInstances, remainingParts, chipboards,
                 placedParts, freeRectangles, alignedLocals, horizontalLocals>>

\* lines 85-88: what optimizePlacement returns
PlacementResult == [chipboards |-> chipboards, statistics |-> statistics]

InitH == algorithm = "horizontal" /\ InitInputs

NextH ==
  StartH \/ EmptySheetH \/ BeginSheetH \/ PlacePartH \/ EndSheetH \/ FinishH

SpecH == InitH /\ [][NextH]_vars

\* the horizontal packer on parts with edge banding
InitPvc ==
  /\ algorithm = "horizontal"
  /\ chipboard \in Chipboards
  /\ parts \in PvcPartLists
  /\ sawThickness \in 0..MaxKerf
  /\ InitLocals

SpecPvc == InitPvc /\ [][NextH]_vars

(***************************************************************************)
(* Both packers together.                                                  *)
(***************************************************************************)
Init == algorithm \in {"aligned", "horizontal"} /\ InitInputs

Next == NextA \/ NextH

Spec == Init /\ [][Next]_vars

\* both packers on a project read from a file
InitUnchecked ==
  /\ algorithm \in {"aligned", "horizontal"}
  /\ chipboard \in UncheckedChipboards
  /\ parts \in UncheckedPartLists
  /\ sawThickness \in 0..MaxKerf
  /\ InitLocals

SpecUnchecked == InitUnchecked /\ [][Next]_vars

(***************************************************************************)
(* Recomputation for a displayed result (src/utils/cutOptimization.ts) and *)
(* the operations of the view on it.                                       *)
(***************************************************************************)
Max(S) == CHOOSE m \in S : \A n \in S : m >= n

\* the values of a sequence in the order of their first occurrence: the key
\* order of a Map filled by addCutSegment
RECURSIVE MapKeys(_)
MapKeys(seq) ==
  IF seq = <<>> THEN <<>>
  ELSE LET front == MapKeys(SubSeq(seq, 1, Len(seq) - 1))
           last == seq[Len(seq)]
       IN IF \E k \in 1..Len(front) : front[k] = last
          THEN front ELSE Append(front, last)

\* Array.from(set).sort((a, b) => a - b)
SortedSeq(S) ==
  [k \in 1..Cardinality(S) |->
     CHOOSE v \in S : Cardinality({u \in S : u < v}) = k - 1]

\* lines 12-28, vertical cuts: the positions in insertion order and the
\* segments pushed for one position
VerticalPositions(ps) ==
  MapKeys(Flatten([k \in 1..Len(ps) |-> <<ps[k].x, ps[k].x + ps[k].width>>]))

VerticalSegments(ps, x) ==
  Flatten([k \in 1..Len(ps) |->
    LET seg == [start |-> ps[k].y, end |-> ps[k].y + ps[k].height]
    IN (IF ps[k].x = x THEN <<seg>> ELSE <<>>)
       \o (IF ps[k].x + ps[k].width = x THEN <<seg>> ELSE <<>>)])

\* lines 12-28, horizontal cuts
HorizontalPositions(ps) ==
  MapKeys(Flatten([k \in 1..Len(ps) |-> <<ps[k].y, ps[k].y + ps[k].height>>]))

HorizontalSegments(ps, y) ==
  Flatten([k \in 1..Len(ps) |->
    LET seg == [start |-> ps[k].x, end |-> ps[k].x + ps[k].width]
    IN (IF ps[k].y = y THEN <<seg>> ELSE <<>>)
       \o (IF ps[k].y + ps[k].height = y THEN <<seg>> ELSE <<>>)])

\* MergeFrom joining two segments only when they share more than a point
RECURSIVE MergeFromOverlapOnly(_, _, _)
MergeFromOverlapOnly(sorted, i, merged) ==
  IF i > Len(sorted) THEN merged
  ELSE LET current == sorted[i]
           last == merged[Len(merged)]
       IN IF current.start < last.end
          THEN MergeFromOverlapOnly(sorted, i + 1,
                 [merged EXCEPT ![Len(merged)].end =
                    Max({last.end, current.end})])
          ELSE MergeFromOverlapOnly(sorted, i + 1, Append(merged, current))

\* the loop of mergeSegments over the sorted segments
RECURSIVE MergeFrom(_, _, _)
MergeFrom(sorted, i, merged) ==
  IF i > Len(sorted) THEN merged
  ELSE LET current == sorted[i]
           last == merged[Len(merged)]
       IN IF current.start <= last.end
          THEN MergeFrom(sorted, i + 1,
                 [merged EXCEPT ![Len(merged)].end =
                    Max({last.end, current.end})])
          ELSE MergeFrom(sorted, i + 1, Append(merged, current))

mergeSegments(segments) ==
  IF Len(segments) = 0 THEN <<>>
  ELSE LET sorted == SortStable(segments,
                       [i, j \in 1..Len(segments) |->
                          segments[i].start - segments[j].start])
       IN MergeFrom(sorted, 2, <<sorted[1]>>)

\* lines 33-51: the lines of one vertical cut position
VerticalLines(ps, board, x) ==
  IF x < board.margin \/ x > board.width - board.margin THEN <<>>
  ELSE LET merged == mergeSegments(VerticalSegments(ps, x))
       IN Flatten([k \in 1..Len(merged) |->
            LET y1 == Max({merged[k].start, board.margin})
                y2 == Min({merged[k].end, board.height - board.margin})
            IN IF y2 > y1
               THEN <<[x1 |-> x, y1 |-> y1, x2 |-> x, y2 |-> y2,
                       length |-> y2 - y1]>>
               ELSE <<>>])

\* lines 54-72: the lines of one horizontal cut position
HorizontalLines(ps, board, y) ==
  IF y < board.margin \/ y > board.height - board.margin THEN <<>>
  ELSE LET merged == mergeSegments(HorizontalSegments(ps, y))
       IN Flatten([k \in 1..Len(merged) |->
            LET x1 == Max({merged[k].start, board.margin})
                x2 == Min({merged[k].end, board.width - board.margin})
            IN IF x2 > x1
               THEN <<[x1 |-> x1, y1 |-> y, x2 |-> x2, y2 |-> y,
                       length |-> x2 - x1]>>
               ELSE <<>>])

recalculateCutLines(ps, board) ==
  LET xs == VerticalPositions(ps)
      ys == HorizontalPositions(ps)
  IN Flatten([k \in 1..Len(xs) |-> VerticalLines(ps, board, xs[k])])
     \o Flatten([k \in 1..Len(ys) |-> HorizontalLines(ps, board, ys[k])])

recalculateStatistics(boards, totalParts, board) ==
  [totalParts |-> totalParts,
   totalChipboards |-> Len(boards),
   totalCutLength |-> SumOverBoards(boards, "length"),
   totalCutOperations |-> SumOverBoards(boards, "operations"),
   efficiency |-> Efficiency(boards, board)]

\* lines 243-283: the remainder of one free segment of one strip, shrunk by
\* the kerf on its inner sides
SegmentRemainder(board, kerf, stripTop, stripBottom, segLeft, segRight) ==
  LET margin == board.margin
      maxX == board.width - margin
      maxY == board.height - margin
      x == IF segLeft # margin THEN segLeft + kerf ELSE segLeft
      w1 == IF segLeft # margin
            THEN segRight - segLeft - kerf ELSE segRight - segLeft
      w == IF segRight # maxX /\ w1 > kerf THEN w1 - kerf ELSE w1
      y == IF stripTop # margin THEN stripTop + kerf ELSE stripTop
      h1 == IF stripTop # margin
            THEN stripBottom - stripTop - kerf ELSE stripBottom - stripTop
      h == IF stripBottom # maxY /\ h1 > kerf THEN h1 - kerf ELSE h1
  IN IF w > 0 /\ h > 0
     THEN <<[x |-> x, y |-> y, width |-> w, height |-> h, area |-> w * h,
             createdFrom |-> "Recalculated"]>>
     ELSE <<>>

\* StripRemainders taking a segment for free when some part of the strip
\* leaves it uncovered
StripRemaindersPartlyFree(ps, board, kerf, stripTop, stripBottom) ==
  LET inStrip == {k \in 1..Len(ps) :
                    ps[k].y < stripBottom /\ ps[k].y + ps[k].height > stripTop}
      sortedX == SortedSeq({board.margin, board.width - board.margin}
                   \cup {ps[k].x : k \in inStrip}
                   \cup {ps[k].x + ps[k].width : k \in inStrip})
      isFree(j) == \E k \in inStrip :
                     ~(ps[k].x < sortedX[j + 1]
                       /\ ps[k].x + ps[k].width > sortedX[j])
  IN Flatten([j \in 1..(Len(sortedX) - 1) |->
       IF isFree(j)
       THEN SegmentRemainder(board, kerf, stripTop, stripBottom,
                             sortedX[j], sortedX[j + 1])
       ELSE <<>>])

\* lines 193-285: the remainders of the strip between two neighbouring y
StripRemainders(ps, board, kerf, stripTop, stripBottom) ==
  LET inStrip == {k \in 1..Len(ps) :
                    ps[k].y < stripBottom /\ ps[k].y + ps[k].height > stripTop}
      sortedX == SortedSeq({board.margin, board.width - board.margin}
                   \cup {ps[k].x : k \in inStrip}
                   \cup {ps[k].x + ps[k].width : k \in inStrip})
      isFree(j) == \A k \in inStrip :
                     ~(ps[k].x < sortedX[j + 1]
                       /\ ps[k].x + ps[k].width > sortedX[j])
  IN Flatten([j \in 1..(Len(sortedX) - 1) |->
       IF isFree(j)
       THEN SegmentRemainder(board, kerf, stripTop, stripBottom,
                             sortedX[j], sortedX[j + 1])
       ELSE <<>>])

\* recalculateRemainders with strips between the edges of the parts only
recalculateRemaindersBetweenParts(ps, board, kerf) ==
  IF Len(ps) = 0
  THEN LET usableWidth == board.width - 2 * board.margin
           usableHeight == board.height - 2 * board.margin
       IN IF usableWidth > 0 /\ usableHeight > 0
          THEN <<[x |-> board.margin, y |-> board.margin,
                  width |-> usableWidth, height |-> usableHeight,
                  area |-> usableWidth * usableHeight,
                  createdFrom |-> "Empty board"]>>
          ELSE <<>>
  ELSE LET sortedY == SortedSeq({ps[k].y : k \in 1..Len(ps)}
                        \cup {ps[k].y + ps[k].height : k \in 1..Len(ps)})
       IN Flatten([i \in 1..(Len(sortedY) - 1) |->
            StripRemainders(ps, board, kerf, sortedY[i], sortedY[i + 1])])

recalculateRemainders(ps, board, kerf) ==
  IF Len(ps) = 0
  THEN LET usableWidth == board.width - 2 * board.margin
           usableHeight == board.height - 2 * board.margin
       IN IF usableWidth > 0 /\ usableHeight > 0
          THEN <<[x |-> board.margin, y |-> board.margin,
                  width |-> usableWidth, height |-> usableHeight,
                  area |-> usableWidth * usableHeight,
                  createdFrom |-> "Empty board"]>>
          ELSE <<>>
  ELSE LET sortedY == SortedSeq({board.margin, board.height - board.margin}
                        \cup {ps[k].y : k \in 1..Len(ps)}
                        \cup {ps[k].y + ps[k].height : k \in 1..Len(ps)})
       IN Flatten([i \in 1..(Len(sortedY) - 1) |->
            StripRemainders(ps, board, kerf, sortedY[i], sortedY[i + 1])])

RECURSIVE CountParts(_)
CountParts(boards) ==
  IF boards = <<>> THEN 0
  ELSE Len(Head(boards).parts) + CountParts(Tail(boards))

\* RecalculatedResult adding the new cut lines to the ones the sheet has
RecalculatedResultKeepsLines(result, board) ==
  LET newChipboards ==
        [k \in 1..Len(result.chipboards) |->
           [result.chipboards[k] EXCEPT
              !.cutLines = result.chipboards[k].cutLines
                 \o recalculateCutLines(result.chipboards[k].parts, board)]]
  IN [chipboards |-> newChipboards,
      statistics |-> recalculateStatistics(newChipboards,
                       CountParts(newChipboards), board)]

\* handleRecalculateStats as a function of the displayed result
RecalculatedResult(result, board) ==
  LET newChipboards ==
        [k \in 1..Len(result.chipboards) |->
           [result.chipboards[k] EXCEPT
              !.cutLines = recalculateCutLines(result.chipboards[k].parts,
                                               board)]]
  IN [chipboards |-> newChipboards,
      statistics |-> recalculateStatistics(newChipboards,
                       CountParts(newChipboards), board)]

ViewPhases == {"done", "edited", "recalculated"}

\* handleRecalculateStats: the Recalculate button of the statistics panel
RecalculateStats ==
  /\ phase \in ViewPhases
  /\ Len(chipboards) > 0
  /\ \E newResult \in {RecalculatedResult(PlacementResult, chipboard)} :
       /\ chipboards' = newResult.chipboards
       /\ statistics' = newResult.statistics
  /\ phase' = "recalculated"
  /\ UNCHANGED <<inputVars, viewVars, partInstances, remainingParts,
                 placedParts, freeRectangles, alignedLocals, horizontalLocals>>

\* handleApplyCoordinates and handlePartsUpdate: the selected part of a
\* sheet is given new coordinates, accepted if the part stays inside the
\* usable rectangle; cut lines and statistics stay as they were
ApplyCoordinates ==
  /\ phase \in ViewPhases
  /\ edits < MaxEdits
  /\ \E s \in 1..Len(chipboards) :
       \E k \in 1..Len(chipboards[s].parts) :
         LET part == chipboards[s].parts[k]
             minX == chipboard.margin
             maxX == chipboard.width - chipboard.margin - part.width
             minY == chipboard.margin
             maxY == chipboard.height - chipboard.margin - part.height
         IN \E newX \in minX..maxX, newY \in minY..maxY :
              chipboards' = [chipboards EXCEPT ![s].parts[k].x = newX,
                                               ![s].parts[k].y = newY]
  /\ edits' = edits + 1
  /\ phase' = "edited"
  /\ UNCHANGED <<inputVars, statistics, remainderCall, partInstances,
                 remainingParts, placedParts, freeRectangles, alignedLocals,
                 horizontalLocals>>

\* a call of recalculateRemainders on the parts of one displayed sheet
RecalculateRemainders ==
  /\ phase \in ViewPhases
  /\ \E s \in 1..Len(chipboards) :
       remainderCall' =
         [called |-> TRUE, parts |-> chipboards[s].parts,
          remainders |-> recalculateRemainders(chipboards[s].parts, chipboard,
                                               sawThickness)]
  /\ UNCHANGED <<inputVars, statistics, edits, phase, chipboards,
                 partInstances, remainingParts, placedParts, freeRectangles,
                 alignedLocals, horizontalLocals>>

\* handleRotatePart and handlePartsUpdate: the selected part of a sheet gets
\* its width and height swapped and its rotated flag inverted, if the
\* rotated part stays left of and above the far sides of the usable
\* rectangle; its other fields, the cut lines and the statistics stay as
\* they were (a refused rotation changes nothing)
RotatePart ==
  /\ phase \in ViewPhases
  /\ edits < MaxRotations
  /\ \E s \in 1..Len(chipboards) :
       \E k \in 1..Len(chipboards[s].parts) :
         LET part == chipboards[s].parts[k]
             newWidth == part.height
             newHeight == part.width
         IN /\ ~(\/ part.x + newWidth > chipboard.width - chipboard.margin
                 \/ part.y + newHeight > chipboard.height - chipboard.margin)
            /\ chipboards' =
                 [chipboards EXCEPT ![s].parts[k] =
                    [part EXCEPT !.width = newWidth, !.height = newHeight,
                                 !.rotated = ~part.rotated]]
  /\ edits' = edits + 1
  /\ phase' = "edited"
  /\ UNCHANGED <<inputVars, statistics, remainderCall, partInstances,
                 remainingParts, placedParts, freeRectangles, alignedLocals,
                 horizontalLocals>>

\* the projects whose results are displayed
ViewProjectParts ==
  [width : {1, MaxViewDim}, height : {1, MaxViewDim}, canRotate : BOOLEAN,
   count : {1}, pvcEdges : {NoPvc}]

ViewPartLists == UNION {[1..n -> ViewProjectParts] : n \in 1..MaxSpecs}

InitView ==
  /\ algorithm \in {"aligned", "horizontal"}
  /\ chipboard \in Chipboards
  /\ parts \in ViewPartLists
  /\ sawThickness \in 0..MaxKerf
  /\ InitLocals

NextView ==
  Next \/ RecalculateStats \/ ApplyCoordinates \/ RecalculateRemainders

SpecView == InitView /\ [][NextView]_vars

(***************************************************************************)
(* The recomputation functions on any displayed layout: PlacementView      *)
(* takes the result to display as a prop, and recalculateCutLines and      *)
(* recalculateRemainders take any list of placed parts. The layouts are    *)
(* the lists of up to MaxLayoutParts parts of sides 1..MaxLayoutDim lying  *)
(* anywhere on a LayoutWidth x LayoutHeight sheet, overlapping or not,     *)
(* inside the margin or not.                                               *)
(***************************************************************************)
LayoutChipboards ==
  [width : {LayoutWidth}, height : {LayoutHeight}, margin : 0..MaxLayoutMargin]

LayoutRectangles ==
  {r \in [x : 0..(LayoutWidth - 1), y : 0..(LayoutHeight - 1),
          width : 1..MaxLayoutDim, height : 1..MaxLayoutDim] :
     r.x + r.width <= LayoutWidth /\ r.y + r.height <= LayoutHeight}

LayoutPart(r, k) ==
  [id |-> uuidv4(1, k), partId |-> k, width |-> r.width, height |-> r.height,
   x |-> r.x, y |-> r.y, rotated |-> FALSE, canRotate |-> FALSE,
   pvcEdges |-> NoPvc]

Layout(rs) == [k \in 1..Len(rs) |-> LayoutPart(rs[k], k)]

\* a result of one sheet is on display; nothing was recomputed yet
InitLayout ==
  /\ algorithm = "horizontal"
  /\ chipboard \in LayoutChipboards
  /\ parts = <<>>
  /\ sawThickness \in 0..MaxKerf
  /\ phase = "done"
  /\ partInstances = <<>>
  /\ remainingParts = <<>>
  /\ \E n \in 0..MaxLayoutParts :
       \E rs \in [1..n -> LayoutRectangles] :
         chipboards = <<[parts |-> Layout(rs),
                         cutLines |-> generateCutLines(Layout(rs), chipboard)]>>
  /\ chipboardCount = 1
  /\ placedParts = <<>>
  /\ freeRectangles = <<>>
  /\ horizontalCuts = {}
  /\ verticalCuts = {}
  /\ sheetInput = <<>>
  /\ partIndex = 0
  /\ sheetRemaining = <<>>
  /\ partsToProcess = <<>>
  /\ remainders = <<>>
  /\ iterationCount = 0
  /\ statistics = NoStatistics
  /\ edits = 0
  /\ remainderCall = [called |-> FALSE, parts |-> <<>>, remainders |-> <<>>]

NextLayout == RecalculateStats \/ RecalculateRemainders

SpecLayout == InitLayout /\ [][NextLayout]_vars

(***************************************************************************)
(* Manual rotation of the parts of a displayed result: the horizontal      *)
(* packer on parts banded on no edge, the top, the right or both, then     *)
(* handleRotatePart.                                                       *)
(***************************************************************************)
RotateProjectParts ==
  {p \in PvcProjectParts :
     p.pvcEdges # NoPvc => (~p.pvcEdges.bottom /\ ~p.pvcEdges.left)}

RotatePartLists == UNION {[1..n -> RotateProjectParts] : n \in 1..MaxSpecs}

InitRotate ==
  /\ algorithm = "horizontal"
  /\ chipboard \in Chipboards
  /\ parts \in RotatePartLists
  /\ sawThickness \in 0..MaxKerf
  /\ InitLocals

NextRotate == NextH \/ RotatePart

SpecRotate == InitRotate /\ [][NextRotate]_vars

(***************************************************************************)
(* Properties.                                                             *)
(***************************************************************************)
Aligned == algorithm = "aligned"

Horizontal == algorithm = "horizontal"

PairwiseDisjoint(sheet) ==
  \A i, j \in 1..Len(sheet) : i < j => ~Overlaps(sheet[i], sheet[j])

\* neighbours along x (their y projections overlap) are a kerf apart, and
\* the same along y, unless one of the two touches the usable boundary
KerfApart(p, q, kerf) ==
  \/ TouchesBoundary(p)
  \/ TouchesBoundary(q)
  \/ /\ (p.y < q.y + q.height /\ q.y < p.y + p.height)
          => (p.x + p.width + kerf <= q.x \/ q.x + q.width + kerf <= p.x)
     /\ (p.x < q.x + q.width /\ q.x < p.x + p.width)
          => (p.y + p.height + kerf <= q.y \/ q.y + q.height + kerf <= p.y)

PairwiseKerfApart(sheet) ==
  \A i, j \in 1..Len(sheet) :
    i < j => KerfApart(sheet[i], sheet[j], sawThickness)

\* C1: on every sheet of the aligned packer no two placed parts overlap.
NoOverlapAligned ==
  Aligned => \A s \in 1..Len(AllSheets) : PairwiseDisjoint(AllSheets[s])

\* C2: every part placed by the aligned packer lies inside the usable
\* rectangle of its sheet, whatever the kerf.
WithinUsableAligned ==
  Aligned =>
    \A s \in 1..Len(AllSheets) :
      \A i \in 1..Len(AllSheets[s]) : WithinUsable(AllSheets[s][i])

\* C3: two parts of a sheet of the aligned packer that are neighbours along
\* an axis are at least the kerf apart along it, unless one of them touches
\* the boundary of the usable rectangle.
KerfSpacingAligned ==
  Aligned => \A s \in 1..Len(AllSheets) : PairwiseKerfApart(AllSheets[s])

\* C4: on every sheet of the horizontal packer no two placed parts overlap,
\* and while a sheet is packed its free boards are disjoint from each other
\* and from every part placed on it.
NoOverlapHorizontal ==
  Horizontal =>
    /\ \A s \in 1..Len(AllSheets) : PairwiseDisjoint(AllSheets[s])
    /\ phase = "sheet" =>
         /\ PairwiseDisjoint(freeRectangles)
         /\ \A b \in 1..Len(freeRectangles) :
              \A k \in 1..Len(placedParts) :
                ~Overlaps(freeRectangles[b], placedParts[k])

\* a finished run of the horizontal packer with a sheet of four parts, one
\* of them rotated, cut with a kerf
WitnessNoOverlapHorizontal ==
  /\ Horizontal
  /\ phase = "done"
  /\ sawThickness > 0
  /\ \E s \in 1..Len(chipboards) :
       /\ Len(chipboards[s].parts) >= 4
       /\ \E k \in 1..Len(chipboards[s].parts) : chipboards[s].parts[k].rotated

\* C5: every part placed by the horizontal packer lies inside the usable
\* rectangle of its sheet, whatever the kerf.
WithinUsableHorizontal ==
  Horizontal =>
    \A s \in 1..Len(AllSheets) :
      \A i \in 1..Len(AllSheets[s]) : WithinUsable(AllSheets[s][i])

\* a sheet with a margin and a kerf on which a part reaches the right edge
\* of the usable rectangle and another its bottom edge
WitnessWithinUsableHorizontal ==
  /\ Horizontal
  /\ chipboard.margin > 0
  /\ sawThickness > 0
  /\ \E s \in 1..Len(chipboards) :
       LET sheet == chipboards[s].parts
       IN /\ Len(sheet) >= 3
          /\ \E i \in 1..Len(sheet) :
               sheet[i].x + sheet[i].width = UsableRight /\ i > 1
          /\ \E i \in 1..Len(sheet) :
               sheet[i].y + sheet[i].height = UsableBottom /\ i > 1

\* C6: two parts of a sheet of the horizontal packer that are neighbours
\* along an axis are at least the kerf apart along it, unless one of them
\* touches the boundary of the usable rectangle.
KerfSpacingHorizontal ==
  Horizontal => \A s \in 1..Len(AllSheets) : PairwiseKerfApart(AllSheets[s])

\* two neighbours along x, neither touching the usable boundary, exactly a
\* positive kerf apart
WitnessKerfSpacingHorizontal ==
  /\ Horizontal
  /\ sawThickness > 0
  /\ \E s \in 1..Len(chipboards) :
       LET sheet == chipboards[s].parts
       IN \E i, j \in 1..Len(sheet) :
            /\ ~TouchesBoundary(sheet[i])
            /\ ~TouchesBoundary(sheet[j])
            /\ sheet[i].y < sheet[j].y + sheet[j].height
            /\ sheet[j].y < sheet[i].y + sheet[i].height
            /\ sheet[i].x + sheet[i].width + sawThickness = sheet[j].x

\* the instances not placed yet, wherever the run stands
Pending ==
  IF phase = "sheet"
  THEN IF Aligned
       THEN sheetRemaining \o SubSeq(sheetInput, partIndex, Len(sheetInput))
       ELSE partsToProcess
  ELSE remainingParts

RECURSIVE TotalCount(_)
TotalCount(ps) ==
  IF ps = <<>> THEN 0 ELSE Head(ps).count + TotalCount(Tail(ps))

\* C7: from the expansion on, every instance (one per unit of count) is in
\* exactly one place: placed once on one sheet, or pending; so the counts
\* add up to the placed parts plus the pending ones.
Conservation ==
  phase # "idle" =>
    LET placed == Flatten(AllSheets)
        ids == [k \in 1..Len(placed) |-> placed[k].id]
                 \o [k \in 1..Len(Pending) |-> Pending[k].id]
    IN /\ Len(placed) + Len(Pending) = TotalCount(parts)
       /\ Len(partInstances) = TotalCount(parts)
       /\ \A n \in 1..Len(partInstances) :
            Cardinality({k \in 1..Len(ids) :
                           ids[k] = partInstances[n].id}) = 1

\* a finished run that placed parts on two sheets and left others unplaced
WitnessConservation ==
  /\ phase = "done"
  /\ Len(remainingParts) > 0
  /\ \E s, t \in 1..Len(chipboards) :
       s # t /\ Len(chipboards[s].parts) >= 2 /\ Len(chipboards[t].parts) >= 1

\* C8: the sheet loop of the aligned optimizePlacement ends. A pass of the
\* loop is a function of remainingParts alone, so the loop ends exactly if
\* every pass hands back fewer instances than it was given.
SheetLoopEndsAligned ==
  [][(Aligned /\ phase = "sheet" /\ phase' = "loop")
       => Len(remainingParts') < Len(remainingParts)]_vars

\* C9: after a sheet attempt of the horizontal packer that placed nothing,
\* optimizePlacement makes no further attempt: its next step is its return.
NoProgressStops ==
  [][(/\ Horizontal
      /\ phase = "loop"
      /\ Len(chipboards) > 0
      /\ chipboards[Len(chipboards)].parts = <<>>)
       => phase' = "done"]_vars

UsableWidth == chipboard.width - 2 * chipboard.margin

UsableHeight == chipboard.height - 2 * chipboard.margin

FitsUnrotated(p) == p.width <= UsableWidth /\ p.height <= UsableHeight

Unplaceable(p) ==
  /\ ~FitsUnrotated(p)
  /\ ~(p.canRotate /\ p.height <= UsableWidth /\ p.width <= UsableHeight)

\* C10: when the horizontal optimizePlacement has returned, an instance
\* that fits the empty sheet unrotated is on some sheet whenever the input
\* also holds an instance that fits in no allowed orientation.
PlaceableIsPlaced ==
  (Horizontal /\ phase = "done") =>
    \A p \in 1..Len(partInstances) :
      (/\ FitsUnrotated(partInstances[p])
       /\ \E u \in 1..Len(partInstances) : Unplaceable(partInstances[u]))
        => \E s \in 1..Len(chipboards) :
             \E k \in 1..Len(chipboards[s].parts) :
               chipboards[s].parts[k].id = partInstances[p].id

FitsRotated(p) ==
  p.canRotate /\ p.height <= UsableWidth /\ p.width <= UsableHeight

\* C11: when the horizontal optimizePlacement has returned, an instance that
\* may rotate, does not fit the empty sheet as given and fits it turned is on
\* some sheet, rotated. Stated for inputs all of whose instances fit the
\* empty sheet in an allowed orientation, so that nothing else holds the
\* instance back.
RotatableIsPlaced ==
  (/\ Horizontal
   /\ phase = "done"
   /\ \A u \in 1..Len(partInstances) : ~Unplaceable(partInstances[u])) =>
    \A p \in 1..Len(partInstances) :
      (~FitsUnrotated(partInstances[p]) /\ FitsRotated(partInstances[p]))
        => \E s \in 1..Len(chipboards) :
             \E k \in 1..Len(chipboards[s].parts) :
               /\ chipboards[s].parts[k].id = partInstances[p].id
               /\ chipboards[s].parts[k].rotated

\* C12: in both packers a placed part is rotated only if its ProjectPart may
\* rotate, and it has the ProjectPart's width and height, swapped exactly
\* when it is rotated.
RotationLegal ==
  \A s \in 1..Len(AllSheets) :
    \A k \in 1..Len(AllSheets[s]) :
      LET placed == AllSheets[s][k]
          spec == parts[placed.partId]
      IN /\ placed.rotated => spec.canRotate
         /\ IF placed.rotated
            THEN placed.width = spec.height /\ placed.height = spec.width
            ELSE placed.width = spec.width /\ placed.height = spec.height

\* a returned result with a rotated part that is not square and, on the same
\* sheet, a part that may rotate, is not square and was left as given
WitnessRotationLegal ==
  /\ phase = "done"
  /\ \E s \in 1..Len(chipboards) :
       LET sheet == chipboards[s].parts
       IN \E i, j \in 1..Len(sheet) :
            /\ sheet[i].rotated
            /\ sheet[i].width # sheet[i].height
            /\ ~sheet[j].rotated
            /\ parts[sheet[j].partId].canRotate
            /\ sheet[j].width # sheet[j].height

\* C13: a part placed rotated by the horizontal packer carries the PvcEdges
\* of its ProjectPart turned (top from left, right from top, bottom from
\* right, left from bottom); a part placed as given carries them unchanged.
PvcRemapped ==
  Horizontal =>
    \A s \in 1..Len(AllSheets) :
      \A k \in 1..Len(AllSheets[s]) :
        LET placed == AllSheets[s][k]
            old == parts[placed.partId].pvcEdges
        IN IF placed.rotated /\ old # NoPvc
           THEN /\ placed.pvcEdges.top = old.left
                /\ placed.pvcEdges.right = old.top
                /\ placed.pvcEdges.bottom = old.right
                /\ placed.pvcEdges.left = old.bottom
           ELSE placed.pvcEdges = old

\* a sheet with a rotated part whose four edges are not banded alike and a
\* part left as given that has banded edges
WitnessPvcRemapped ==
  /\ Horizontal
  /\ \E s \in 1..Len(chipboards) :
       LET sheet == chipboards[s].parts
       IN \E i, j \in 1..Len(sheet) :
            /\ sheet[i].rotated
            /\ parts[sheet[i].partId].pvcEdges # NoPvc
            /\ parts[sheet[i].partId].pvcEdges.top
            /\ ~parts[sheet[i].partId].pvcEdges.right
            /\ ~sheet[j].rotated
            /\ sheet[j].pvcEdges # NoPvc
            /\ sheet[j].pvcEdges.left

\* a ProjectPart as a part placed in its given orientation
AsGiven(spec) ==
  [width |-> spec.width, height |-> spec.height, pvcEdges |-> spec.pvcEdges]

RECURSIVE SumGivenPvcLength(_)
SumGivenPvcLength(ps) ==
  IF ps = <<>> THEN 0
  ELSE PvcLength(AsGiven(parts[Head(ps).partId]))
         + SumGivenPvcLength(Tail(ps))

\* C14: the edge banding calculateStatistics counts for a placed part is the
\* one of its ProjectPart in the given orientation, whether the packer turned
\* the part or not; so totalPvcLength of a result is the sum over the placed
\* parts of the edge banding of their ProjectParts.
PvcLengthUnchanged ==
  Horizontal =>
    /\ \A s \in 1..Len(AllSheets) :
         \A k \in 1..Len(AllSheets[s]) :
           PvcLength(AllSheets[s][k])
             = PvcLength(AsGiven(parts[AllSheets[s][k].partId]))
    /\ phase = "done" =>
         statistics.totalPvcLength = SumGivenPvcLength(Flatten(AllSheets))

\* a returned result with a rotated part that is not square and has its top
\* edge banded and its left edge not
WitnessPvcLengthUnchanged ==
  /\ Horizontal
  /\ phase = "done"
  /\ statistics.totalPvcLength > 0
  /\ \E s \in 1..Len(chipboards) :
       \E k \in 1..Len(chipboards[s].parts) :
         LET placed == chipboards[s].parts[k]
             old == parts[placed.partId].pvcEdges
         IN /\ placed.rotated
            /\ placed.width # placed.height
            /\ old # NoPvc
            /\ old.top
            /\ ~old.left

\* the instance identities a result names: those of its placed parts and
\* those its remainders were created from
IdentitiesNamed(result) ==
  UNION {
    {result.chipboards[s].parts[k].id :
       k \in 1..Len(result.chipboards[s].parts)}
    \cup
    (IF "remainders" \in DOMAIN result.chipboards[s]
     THEN {result.chipboards[s].remainders[k].createdFrom :
             k \in 1..Len(result.chipboards[s].remainders)}
     ELSE {}) : s \in 1..Len(result.chipboards)}

\* C15: when the horizontal optimizePlacement returns at maxChipboards with
\* instances left, what it returns names every unplaced instance.
UnplacedReported ==
  (/\ Horizontal
   /\ phase = "done"
   /\ chipboardCount >= maxChipboards
   /\ Len(remainingParts) > 0) =>
    \A k \in 1..Len(remainingParts) :
      remainingParts[k].id \in IdentitiesNamed(PlacementResult)

\* an input the specification calls invalid
InvalidSpec ==
  \/ \E k \in 1..Len(parts) :
       parts[k].width <= 0 \/ parts[k].height <= 0 \/ parts[k].count < 1
  \/ 2 * chipboard.margin >= chipboard.width
  \/ 2 * chipboard.margin >= chipboard.height

\* C16: on an invalid input optimizePlacement stops before it packs
\* anything: no sheet is attempted or produced, and it does not return the
\* result of a run (the only thing the code ever returns).
InvalidSpecRejected ==
  InvalidSpec => (phase \in {"idle", "loop"} /\ chipboards = <<>>)

\* a layout the recompute operations must refuse: two parts overlap or a
\* part is not inside the usable rectangle
InvalidLayout(ps) ==
  \/ ~PairwiseDisjoint(ps)
  \/ \E k \in 1..Len(ps) : ~WithinUsable(ps[k])

\* C17: recalculateCutLines and recalculateRemainders produce nothing for a
\* layout with overlapping parts or a part outside the usable rectangle:
\* after Recalculate such a sheet has no cut lines, and a call of
\* recalculateRemainders on such parts returns no remainders.
LayoutInconsistencyReported ==
  /\ phase = "recalculated" =>
       \A s \in 1..Len(chipboards) :
         InvalidLayout(chipboards[s].parts) => chipboards[s].cutLines = <<>>
  /\ (remainderCall.called /\ InvalidLayout(remainderCall.parts))
       => remainderCall.remainders = <<>>

\* C18: a run on the same chipboard, parts and kerf returns the same result
\* whatever uuidv4 draws: every placed part has the identity that any other
\* draw gives to the same instance (positions, dimensions, rotation, cut
\* lines and statistics are computed without a draw).
Determinism ==
  \A s \in 1..Len(AllSheets) :
    \A k \in 1..Len(AllSheets[s]) :
      \A draw \in UuidDraws :
        AllSheets[s][k].id = uuidv4(draw, AllSheets[s][k].id[2])

ValidLayouts ==
  \A s \in 1..Len(chipboards) : ~InvalidLayout(chipboards[s].parts)

\* C19: on a valid layout Recalculate changes no placed part, and a second
\* Recalculate right after the first changes nothing at all: the cut lines
\* and the statistics are those of the first.
RecomputeIdempotent ==
  [][(ValidLayouts /\ phase' = "recalculated") =>
       /\ Len(chipboards') = Len(chipboards)
       /\ \A s \in 1..Len(chipboards) :
            chipboards'[s].parts = chipboards[s].parts
       /\ phase = "recalculated" =>
            (chipboards' = chipboards /\ statistics' = statistics)]_vars

\* a valid layout, recalculated after a manual edit, with a sheet of two
\* parts whose cut lines are not the ones the packer stored
WitnessRecomputeIdempotent ==
  /\ phase = "recalculated"
  /\ edits > 0
  /\ ValidLayouts
  /\ \E s \in 1..Len(chipboards) :
       /\ Len(chipboards[s].parts) >= 2
       /\ chipboards[s].cutLines # <<>>
       /\ chipboards[s].cutLines
            # generateCutLines(chipboards[s].parts, chipboard)

\* C20: a sheet whose only part lies at the origin of the usable rectangle
\* and is smaller than it in both dimensions has exactly two cut lines, a
\* vertical one at the right edge of the part and a horizontal one at its
\* top edge; when it is the only sheet, totalCutOperations is 2. (While an
\* edit awaits Recalculate the stored lines are those of the old layout.)
SinglePartCutLines ==
  (phase \in {"done", "recalculated"}) =>
    \A s \in 1..Len(chipboards) :
      LET sheet == chipboards[s]
          part == sheet.parts[1]
      IN (/\ Len(sheet.parts) = 1
          /\ part.x = UsableLeft /\ part.y = UsableTop
          /\ part.width < UsableWidth /\ part.height < UsableHeight) =>
           /\ Len(sheet.cutLines) = 2
           /\ \E c \in 1..2 :
                /\ sheet.cutLines[c].x1 = part.x + part.width
                /\ sheet.cutLines[c].x2 = part.x + part.width
           /\ \E c \in 1..2 :
                /\ sheet.cutLines[c].y1 = part.y + part.height
                /\ sheet.cutLines[c].y2 = part.y + part.height
           /\ Len(chipboards) = 1 => statistics.totalCutOperations = 2

\* C21: in the result of the horizontal optimizePlacement, totalParts is the
\* number of placed parts over all sheets (also when instances stay
\* unplaced), totalChipboards is the number of sheets and
\* totalCutOperations is the number of cut lines over all sheets.
StatisticsCountPlaced ==
  (Horizontal /\ phase = "done") =>
    /\ statistics.totalParts = CountParts(chipboards)
    /\ statistics.totalChipboards = Len(chipboards)
    /\ statistics.totalCutOperations
         = Cardinality(UNION {{<<s, c>> : c \in 1..Len(chipboards[s].cutLines)} :
                                s \in 1..Len(chipboards)})

\* C22: when the sheets of a result hold non-overlapping parts inside the
\* usable rectangle, the efficiency that calculateStatistics and
\* recalculateStatistics compute for it lies between 0 and 100 percent
\* (kept in hundredths of a percent). While an edit awaits Recalculate the
\* statistics are those of the layout before the edit.
EfficiencyBound ==
  (phase \in {"done", "recalculated"} /\ ValidLayouts) =>
    (0 <= statistics.efficiency /\ statistics.efficiency <= 10000)

\* a valid layout that fills its sheet, recalculated after a manual move
WitnessEfficiencyBound ==
  /\ phase = "recalculated"
  /\ edits > 0
  /\ ValidLayouts
  /\ Len(chipboards) = 1
  /\ Len(chipboards[1].parts) = 2
  /\ statistics.efficiency = 10000

\* a part has a left or right edge at x that covers [t, t + 1]
OnVerticalEdge(ps, x, t) ==
  \E k \in 1..Len(ps) :
    /\ ps[k].x = x \/ ps[k].x + ps[k].width = x
    /\ ps[k].y <= t
    /\ t + 1 <= ps[k].y + ps[k].height

\* a part has a bottom or top edge at y that covers [t, t + 1]
OnHorizontalEdge(ps, y, t) ==
  \E k \in 1..Len(ps) :
    /\ ps[k].y = y \/ ps[k].y + ps[k].height = y
    /\ ps[k].x <= t
    /\ t + 1 <= ps[k].x + ps[k].width

\* the lines are merged and lie on edges of the parts
MergedOnEdges(lines, ps) ==
  /\ \A i \in 1..Len(lines) :
       \/ /\ lines[i].x1 = lines[i].x2
          /\ lines[i].y1 < lines[i].y2
          /\ \A t \in lines[i].y1..(lines[i].y2 - 1) :
               OnVerticalEdge(ps, lines[i].x1, t)
       \/ /\ lines[i].y1 = lines[i].y2
          /\ lines[i].x1 < lines[i].x2
          /\ \A t \in lines[i].x1..(lines[i].x2 - 1) :
               OnHorizontalEdge(ps, lines[i].y1, t)
  /\ \A i, j \in 1..Len(lines) :
       i < j =>
         /\ (/\ lines[i].x1 = lines[i].x2
             /\ lines[j].x1 = lines[j].x2
             /\ lines[i].x1 = lines[j].x1)
              => (lines[i].y2 < lines[j].y1 \/ lines[j].y2 < lines[i].y1)
         /\ (/\ lines[i].y1 = lines[i].y2
             /\ lines[j].y1 = lines[j].y2
             /\ lines[i].y1 = lines[j].y1)
              => (lines[i].x2 < lines[j].x1 \/ lines[j].x2 < lines[i].x1)

\* C23: in what recalculateCutLines returns for any list of parts, two
\* vertical lines of the same x have y-ranges that neither overlap nor
\* touch, two horizontal lines of the same y have x-ranges that neither
\* overlap nor touch, and every point of a line lies on a left or right
\* (for a horizontal line: bottom or top) edge of a part at that coordinate.
MergedCutLines ==
  phase = "recalculated" =>
    \A s \in 1..Len(chipboards) :
      MergedOnEdges(chipboards[s].cutLines, chipboards[s].parts)

\* three parts recalculated: two lines on the same x that stay apart, and one
\* line merged from the touching edges of two parts
WitnessMergedCutLines ==
  /\ phase = "recalculated"
  /\ Len(chipboards[1].parts) = 3
  /\ LET lines == chipboards[1].cutLines
         ps == chipboards[1].parts
     IN /\ \E i, j \in 1..Len(lines) :
             /\ i # j
             /\ lines[i].x1 = lines[i].x2
             /\ lines[j].x1 = lines[j].x2
             /\ lines[i].x1 = lines[j].x1
        /\ \E i \in 1..Len(lines) :
             /\ lines[i].y1 = lines[i].y2
             /\ \A k \in 1..Len(ps) : lines[i].length > ps[k].width
             /\ \E k, m \in 1..Len(ps) :
                  /\ ps[k].x + ps[k].width = ps[m].x
                  /\ ps[k].x = lines[i].x1
                  /\ ps[m].x + ps[m].width = lines[i].x2

\* the free segments of the strips of a layout: the rectangles between
\* neighbouring strip boundaries and neighbouring part edges of the strip
\* that no part of the strip overlaps
FreeSegments(ps, board) ==
  LET sortedY == SortedSeq({board.margin, board.height - board.margin}
                   \cup {ps[k].y : k \in 1..Len(ps)}
                   \cup {ps[k].y + ps[k].height : k \in 1..Len(ps)})
      inStrip(i) == {k \in 1..Len(ps) :
                       ps[k].y < sortedY[i + 1]
                       /\ ps[k].y + ps[k].height > sortedY[i]}
      sortedX(i) == SortedSeq({board.margin, board.width - board.margin}
                      \cup {ps[k].x : k \in inStrip(i)}
                      \cup {ps[k].x + ps[k].width : k \in inStrip(i)})
  IN UNION {
       {[top |-> sortedY[i], bottom |-> sortedY[i + 1],
         left |-> sortedX(i)[j], right |-> sortedX(i)[j + 1]] :
          j \in {m \in 1..(Len(sortedX(i)) - 1) :
                   \A k \in inStrip(i) :
                     ~(ps[k].x < sortedX(i)[m + 1]
                       /\ ps[k].x + ps[k].width > sortedX(i)[m])}} :
       i \in 1..(Len(sortedY) - 1)}

\* a free segment shrunk by the kerf on each side that is not on the
\* boundary of the usable rectangle
Shrunk(seg, board, kerf) ==
  LET atLeft == IF seg.left # board.margin THEN kerf ELSE 0
      atRight == IF seg.right # board.width - board.margin THEN kerf ELSE 0
      atTop == IF seg.top # board.margin THEN kerf ELSE 0
      atBottom == IF seg.bottom # board.height - board.margin THEN kerf ELSE 0
  IN [x |-> seg.left + atLeft, y |-> seg.top + atTop,
      width |-> seg.right - seg.left - atLeft - atRight,
      height |-> seg.bottom - seg.top - atTop - atBottom]

Rectangle(r) == [x |-> r.x, y |-> r.y, width |-> r.width, height |-> r.height]

\* C24: recalculateRemainders returns, for a layout with parts, exactly the
\* free segments shrunk by the kerf on each side that does not lie on the
\* boundary of the usable rectangle, those whose shrunk width and height are
\* both positive; so a free segment between two parts that is at most two
\* kerfs wide gives no remainder.
KerfShrink ==
  (remainderCall.called /\ Len(remainderCall.parts) > 0) =>
    {Rectangle(remainderCall.remainders[k]) :
       k \in 1..Len(remainderCall.remainders)}
    = {r \in {Shrunk(seg, chipboard, sawThickness) :
                seg \in FreeSegments(remainderCall.parts, chipboard)} :
         r.width > 0 /\ r.height > 0}

\* instances in the order of the packing priority: width descending, then
\* height descending, instances of equal width and height in the order of
\* their expansion (the n-th instance has the n-th identifier of the run)
OrderedByLength(instances) ==
  \A i, j \in 1..Len(instances) :
    i < j =>
      \/ instances[i].width > instances[j].width
      \/ /\ instances[i].width = instances[j].width
         /\ instances[i].height > instances[j].height
      \/ /\ instances[i].width = instances[j].width
         /\ instances[i].height = instances[j].height
         /\ instances[i].id[2] < instances[j].id[2]

\* C25: the horizontal optimizePlacement orders the expanded instances by
\* width descending, then height descending, instances of equal width and
\* height in specification order; the remaining sequence stays in that
\* order, and a sheet that is started gets as its first part the first
\* instance of the remaining sequence.
PackingPriority ==
  [][Horizontal =>
       /\ (phase = "idle" /\ phase' = "loop") =>
            /\ OrderedByLength(partInstances')
            /\ Len(partInstances') = TotalCount(parts)
            /\ remainingParts' = partInstances'
       /\ phase' \in {"loop", "sheet"} => OrderedByLength(remainingParts')
       /\ (phase = "loop" /\ phase' = "sheet") =>
            /\ Len(placedParts') = 1
            /\ placedParts'[1].id = Head(remainingParts).id
            /\ remainingParts' = Tail(remainingParts)]_vars

\* a second sheet is started, for parts given in another order than the
\* packing priority, with a tie on the width and two instances of one size
WitnessPackingPriority ==
  /\ Horizontal
  /\ phase = "sheet"
  /\ Len(chipboards) >= 1
  /\ Len(chipboards[1].parts) >= 1
  /\ Len(parts) = 2
  /\ parts[1].width = parts[2].width
  /\ parts[1].height < parts[2].height
  /\ parts[1].count >= 2
  /\ placedParts[1].partId = 1

\* C26: for a layout of non-overlapping parts inside the usable rectangle
\* and any kerf, every remainder recalculateRemainders returns has positive
\* width and height, lies inside the usable rectangle, overlaps no placed
\* part, and has the area width * height.
RemaindersAreFree ==
  (remainderCall.called /\ ~InvalidLayout(remainderCall.parts)) =>
    \A k \in 1..Len(remainderCall.remainders) :
      LET r == remainderCall.remainders[k]
      IN /\ r.width > 0
         /\ r.height > 0
         /\ WithinUsable(r)
         /\ \A p \in 1..Len(remainderCall.parts) :
              ~Overlaps(r, remainderCall.parts[p])
         /\ r.area = r.width * r.height

\* a call with a kerf on a valid layout of three parts, one of them with
\* neighbours on both sides, that returns a remainder shrunk by the kerf
WitnessRemaindersAreFree ==
  /\ remainderCall.called
  /\ sawThickness > 0
  /\ ~InvalidLayout(remainderCall.parts)
  /\ Len(remainderCall.parts) = 3
  /\ \E p, q \in 1..3 :
       /\ remainderCall.parts[p].x + remainderCall.parts[p].width
            = remainderCall.parts[q].x
       /\ remainderCall.parts[p].y = remainderCall.parts[q].y
  /\ \E k \in 1..Len(remainderCall.remainders) :
       LET r == remainderCall.remainders[k]
       IN /\ r.x > UsableLeft
          /\ r.y > UsableTop
          /\ \E p \in 1..3 :
               remainderCall.parts[p].x + remainderCall.parts[p].width
                 + sawThickness = r.x

RECURSIVE SumRemainderArea(_)
SumRemainderArea(rems) ==
  IF rems = <<>> THEN 0 ELSE Head(rems).area + SumRemainderArea(Tail(rems))

\* C27: at kerf 0, for a layout of non-overlapping parts inside the usable
\* rectangle, the remainders recalculateRemainders returns are pairwise
\* non-overlapping, and their areas plus the areas of the parts add up to
\* the area of the usable rectangle; with no parts the usable rectangle is
\* the one remainder. (The usable rectangle of a chipboard has a positive
\* width and height.)
RemainderAreaAccounting ==
  (/\ remainderCall.called
   /\ sawThickness = 0
   /\ UsableWidth > 0
   /\ UsableHeight > 0
   /\ ~InvalidLayout(remainderCall.parts)) =>
    /\ PairwiseDisjoint(remainderCall.remainders)
    /\ SumRemainderArea(remainderCall.remainders)
         + SumArea(remainderCall.parts) = UsableWidth * UsableHeight
    /\ Len(remainderCall.parts) = 0 =>
         /\ Len(remainderCall.remainders) = 1
         /\ Rectangle(remainderCall.remainders[1])
              = [x |-> UsableLeft, y |-> UsableTop,
                 width |-> UsableWidth, height |-> UsableHeight]

\* a call at kerf 0 on a valid layout of three parts in more than one strip
\* that returns several remainders
WitnessRemainderAreaAccounting ==
  /\ remainderCall.called
  /\ sawThickness = 0
  /\ ~InvalidLayout(remainderCall.parts)
  /\ Len(remainderCall.parts) = 3
  /\ \E p, q \in 1..3 : remainderCall.parts[p].y # remainderCall.parts[q].y
  /\ Len(remainderCall.remainders) >= 3

\* the lines of a sheet as a set
LineSet(lines) == {lines[k] : k \in 1..Len(lines)}

\* C28: Recalculate on a result as optimizePlacement returned it (no edit
\* made) leaves every sheet with the same set of cut lines that the packer
\* stored, and totalCutOperations and totalCutLength as they were.
RecomputeAgreesWithPlacement ==
  [][(phase = "done" /\ phase' = "recalculated") =>
       /\ \A s \in 1..Len(chipboards) :
            LineSet(chipboards'[s].cutLines) = LineSet(chipboards[s].cutLines)
       /\ statistics'.totalCutOperations = statistics.totalCutOperations
       /\ statistics'.totalCutLength = statistics.totalCutLength]_vars

\* C29: every sheet of the result optimizePlacement returns holds at least
\* one placed part, so totalChipboards counts used sheets only.
NoEmptySheets ==
  phase = "done" =>
    /\ \A s \in 1..Len(chipboards) : Len(chipboards[s].parts) >= 1
    /\ statistics.totalChipboards
         = Cardinality({s \in 1..Len(chipboards) :
                          Len(chipboards[s].parts) >= 1})

\* C30: a manual rotation (handleRotatePart) swaps the width and height of
\* the selected part, remaps its PvcEdges clockwise (new top = old left,
\* new right = old top, new bottom = old right, new left = old bottom), so
\* that its edge-banding length is unchanged, and leaves rotated = TRUE only
\* on a part whose ProjectPart allows rotation.
ManualRotationRule ==
  [][edits' = edits + 1 =>
       \A s \in 1..Len(chipboards) :
         \A k \in 1..Len(chipboards[s].parts) :
           LET old == chipboards[s].parts[k]
               new == chipboards'[s].parts[k]
           IN new # old =>
                /\ new.width = old.height
                /\ new.height = old.width
                /\ old.pvcEdges # NoPvc =>
                     new.pvcEdges = [top |-> old.pvcEdges.left,
                                     right |-> old.pvcEdges.top,
                                     bottom |-> old.pvcEdges.right,
                                     left |-> old.pvcEdges.bottom]
                /\ PvcLength(new) = PvcLength(old)
                /\ new.rotated => parts[new.partId].canRotate]_vars

====
